---- MODULE Spec2Model ----
(***************************************************************************)
(* py2neo.cypher.core: the Transaction state machine (execute, post,       *)
(* process, commit, rollback), the presubstitution of statement text, and  *)
(* the population of Result objects from the server's response.            *)
(*                                                                         *)
(* Text is a sequence of one-character strings.  The server and the REST   *)
(* resource are outside the module's code: a response is any response the  *)
(* wire protocol allows, and a request may raise a transport error.        *)
(***************************************************************************)
EXTENDS Integers, Sequences, FiniteSets, TLC

(* ------------------------------ bounds -------------------------------- *)

\* execute() calls that queue a statement
MaxExecute == 2

\* substitutions one call of presubstitute is followed through
MaxIterations == 3

(* --------------------------- text helpers ----------------------------- *)

None == "None"

opener == "«"
closer == "»"

RECURSIVE Find(_, _, _)
\* least index >= i at which text holds ch, 0 when there is none (str.partition)
Find(text, ch, i) ==
    IF i > Len(text) THEN 0
    ELSE IF text[i] = ch THEN i
    ELSE Find(text, ch, i + 1)

\* str.partition(sep) for a one-character separator: <<head, sep, tail>>
partition(text, sep) ==
    LET i == Find(text, sep, 1) IN
    IF i = 0 THEN << text, <<>>, <<>> >>
    ELSE << SubSeq(text, 1, i - 1), <<sep>>, SubSeq(text, i + 1, Len(text)) >>

Digit(d) == CASE d = 0 -> "0" [] d = 1 -> "1" [] d = 2 -> "2" [] d = 3 -> "3"
              [] d = 4 -> "4" [] d = 5 -> "5" [] d = 6 -> "6" [] d = 7 -> "7"
              [] d = 8 -> "8" [] d = 9 -> "9"

RECURSIVE Digits(_)
Digits(n) == IF n < 10 THEN << Digit(n) >> ELSE Digits(n \div 10) \o << Digit(n % 10) >>

\* ustr(n) of an integer: its decimal text
ustr(n) == IF n < 0 THEN <<"-">> \o Digits(0 - n) ELSE Digits(n)

RECURSIVE Replace(_, _, _)
\* str.replace(ch, by) for a one-character ch
Replace(text, ch, by) ==
    IF text = <<>> THEN <<>>
    ELSE (IF Head(text) = ch THEN by ELSE << Head(text) >>) \o Replace(Tail(text), ch, by)

SafeChars == {"a", "b", "k", "n", "L", "R", "T"}

\* the grave accent, U+0060, which the lexer of TLA+ does not accept in a string
backtick == "'"

\* cypher_escape(identifier): the identifier as it is when every character is
\* safe, and quoted in grave accents, each grave accent doubled, otherwise
cypher_escape(identifier) ==
    IF \A i \in 1..Len(identifier) : identifier[i] \in SafeChars
    THEN identifier
    ELSE <<backtick>> \o Replace(identifier, backtick, <<backtick, backtick>>) \o <<backtick>>

RECURSIVE JoinEscaped(_)
\* the elements of value, each escaped, joined with a colon
JoinEscaped(value) ==
    IF value = <<>> THEN <<>>
    ELSE IF Len(value) = 1 THEN cypher_escape(value[1])
    ELSE cypher_escape(value[1]) \o <<":">> \o JoinEscaped(Tail(value))

(* --------------------------- presubstitute ---------------------------- *)

\* A parameter value is tagged with the Python type the code tests for:
\* "int" (integer), "tuple" (tuple of integers), "list" (collection of
\* strings), "str" (anything else, a string here).
Render(value) ==
    CASE value.type = "int" -> ustr(value.v)
      [] value.type = "tuple" -> ustr(value.v[1]) \o <<".", ".">> \o ustr(value.v[Len(value.v)])
      [] value.type = "list" -> JoinEscaped(value.v)
      [] OTHER -> cypher_escape(value.v)

\* value[0] of a tuple that has no elements: IndexError (all() of no elements
\* is true, so the empty tuple is taken for a tuple of integers)
RenderRaises(value) == value.type = "tuple" /\ value.v = <<>>

RECURSIVE PresubLoop(_, _, _)
\* the while loop of presubstitute: [raised, statement, presub_parameters]
PresubLoop(statement, parameters, presub_parameters) ==
    LET p == partition(statement, opener) IN
    IF p[2] = <<>>
    THEN [raised |-> None, statement |-> statement, presub_parameters |-> presub_parameters]
    ELSE LET q == partition(p[3], closer)
             key == q[1]
         IN IF key \notin DOMAIN parameters
            THEN [raised |-> "KeyError", statement |-> statement,
                  presub_parameters |-> presub_parameters]
            ELSE IF RenderRaises(parameters[key])
            THEN [raised |-> "IndexError", statement |-> statement,
                  presub_parameters |-> presub_parameters \cup {key}]
            ELSE PresubLoop(p[1] \o Render(parameters[key]) \o q[3], parameters,
                            presub_parameters \cup {key})

\* presubstitute(statement, parameters): [raised, statement, parameters]
presubstitute(statement, parameters) ==
    LET r == PresubLoop(statement, parameters, {}) IN
    [raised |-> r.raised,
     statement |-> r.statement,
     parameters |-> [k \in DOMAIN parameters \ r.presub_parameters |-> parameters[k]]]

(* ----------------------- Record, RecordProducer ------------------------ *)

\* column.startswith("_")
startswith_underscore(column) == Len(column) >= 1 /\ column[1] = "_"

RECURSIVE RecordProducer(_)
\* RecordProducer(columns).columns: the columns that are not internal
RecordProducer(columns) ==
    IF columns = <<>> THEN <<>>
    ELSE (IF startswith_underscore(Head(columns)) THEN <<>> ELSE << Head(columns) >>)
         \o RecordProducer(Tail(columns))

\* the greatest position of column in columns (a later setattr overwrites)
LastIndex(columns, column) ==
    CHOOSE i \in 1..Len(columns) :
        /\ columns[i] = column
        /\ \A j \in (i + 1)..Len(columns) : columns[j] # column

\* graph.hydrate of a row of scalars: the scalars themselves
hydrate(rest) == [i \in DOMAIN rest |-> rest[i]]

\* producer.produce(values), Record.__init__: the values and one attribute
\* per column of the producer; IndexError when values is shorter
produce(columns, values) ==
    IF Len(values) < Len(columns) THEN [raised |-> "IndexError"]
    ELSE [raised |-> None,
          values |-> values,
          attrs |-> [c \in {columns[i] : i \in 1..Len(columns)} |->
                        values[LastIndex(columns, c)]],
          columns |-> columns]

(* ------------------------------ Result -------------------------------- *)

\* Result.__init__.  Two fields are history, kept for the properties only:
\* answers is the id of the statement whose response block populated the
\* Result (0: none), failed is whether the statement of the Result was sent
\* in a post whose response reported errors
Result == [keys |-> <<>>, records |-> <<>>, processed |-> FALSE,
           answers |-> 0, failed |-> FALSE]

\* Result.process(keys, records) on the Result self
process(self, keys, records, answers) ==
    [self EXCEPT !.keys = keys, !.records = records, !.processed = TRUE,
                 !.answers = answers]

(* ---------------------------- Transaction ----------------------------- *)

VARIABLES
    statements,   \* Transaction.statements: the queued statements
    results,      \* Transaction.results: ids of the pending Results, in order
    tx_execute,   \* Transaction.__execute: the execute endpoint, or None
    tx_commit,    \* Transaction.__commit: the commit endpoint, or None
    finished,     \* Transaction.__finished
    heap,         \* the Result objects execute() returned, by id
    requests,     \* the requests the last call sent, in order
    carried,      \* the location and the commit URL of the most recent
                  \* responses that carried one, or None
    last          \* the last call made and what it raised

vars == << statements, results, tx_execute, tx_commit, finished, heap, requests, carried, last >>

\* Resource(uri), Resource(uri + "/commit")
begin == "/tx"
begin_commit == "/tx/commit"

Locations == {"/tx/1", "/tx/2"}
CommitURLs == {"/tx/1/commit", "/tx/2/commit"}

k_ == <<"k">>
n_ == <<"n">>
IntValue(n) == [type |-> "int", v |-> n]
NodeValue(id) == [type |-> "node", v |-> id]
NoParameters == [k \in {} |-> IntValue(0)]

\* the calls of execute() the model makes: statement text, the parameters
\* the statement carries, the parameters argument and the keyword parameters
ExecuteInputs ==
    { [statement |-> <<"R">>, carried |-> NoParameters,
       parameters |-> (n_ :> NodeValue(4)), kwparameters |-> NoParameters],
      [statement |-> <<"R", opener, "k", closer>>, carried |-> (k_ :> IntValue(1)),
       parameters |-> (n_ :> IntValue(5)), kwparameters |-> (k_ :> IntValue(-17))],
      [statement |-> <<"R", opener, "k", closer>>, carried |-> NoParameters,
       parameters |-> (n_ :> IntValue(5)), kwparameters |-> NoParameters] }

Init ==
    /\ statements = <<>>
    /\ results = <<>>
    /\ tx_execute = None
    /\ tx_commit = None
    /\ finished = FALSE
    /\ heap = <<>>
    /\ requests = <<>>
    /\ carried = [location |-> None, commit |-> None]
    /\ last = [op |-> "begin", commit |-> FALSE, raised |-> None]

\* dict(a, **b): the keys of both, b's value where both have the key
Merge(a, b) == [k \in DOMAIN a \cup DOMAIN b |-> IF k \in DOMAIN b THEN b[k] ELSE a[k]]

\* add_parameters(params): a Node or Relationship value becomes its _id
add_parameters(p, params) ==
    Merge(p, [k \in DOMAIN params |->
                 IF params[k].type \in {"node", "relationship"}
                 THEN IntValue(params[k].v) ELSE params[k]])

\* a check that never raises
assert_unfinished_never == FALSE

\* Transaction.__assert_unfinished: whether it raises Finished
assert_unfinished == finished

\* the queue entry of a statement (an OrderedDict); id, the number of the
\* execute() call, is history kept for the properties only
QueueEntry(sp, id) ==
    [id |-> id, statement |-> sp.statement, parameters |-> sp.parameters,
     resultDataContents |-> <<"REST">>]

\* an execute() that appends to the queue before it presubstitutes
queued_before_presubstitute(sp, id) == Append(statements, QueueEntry(sp, id))

\* self.statements after execute(), presubstitute having returned or raised
\* sp: the append comes after the call of presubstitute
queued(sp, id) ==
    IF sp.raised # None THEN statements ELSE Append(statements, QueueEntry(sp, id))

\* Transaction.execute(statement, parameters, **kwparameters)
Execute(in) ==
    /\ assert_unfinished \/ Len(heap) < MaxExecute
    /\ IF assert_unfinished
       THEN /\ last' = [op |-> "execute", commit |-> FALSE, raised |-> "Finished"]
            /\ UNCHANGED << statements, results, heap >>
       ELSE LET p == add_parameters(add_parameters(NoParameters, in.carried),
                                    Merge(in.parameters, in.kwparameters))
                sp == presubstitute(in.statement, p)
                id == Len(heap) + 1
            IN IF sp.raised # None
               THEN /\ last' = [op |-> "execute", commit |-> FALSE, raised |-> sp.raised]
                    /\ statements' = queued(sp, id)
                    /\ UNCHANGED << results, heap >>
               ELSE /\ statements' = queued(sp, id)
                    /\ heap' = Append(heap, Result)
                    /\ results' = Append(results, id)
                    /\ last' = [op |-> "execute", commit |-> FALSE, raised |-> None]
    /\ requests' = <<>>
    /\ UNCHANGED << tx_execute, tx_commit, finished, carried >>

(* ------------------------- the server's answer ------------------------ *)

a_ == <<"a">>
b_ == <<"b">>
\* an internal column: its name starts with an underscore
i_ == <<"_", "i">>

\* the columns and rows a result block may carry
Bodies ==
    { [columns |-> << a_ >>, data |-> << << 1 >> >>],
      [columns |-> << i_, b_ >>, data |-> << << 2, 3 >>, << 4, 5 >> >>] }

\* the result blocks answering the first n of stmts, one per statement, in order
BlocksFor(stmts, n) ==
    { [i \in 1..n |-> [answers |-> stmts[i].id,
                       columns |-> body[i].columns,
                       data |-> body[i].data]] : body \in [1..n -> Bodies] }

\* the result blocks answering the first n of stmts, each with one row
FirstBlocks(stmts, n) ==
    [i \in 1..n |-> [answers |-> stmts[i].id, columns |-> << a_ >>, data |-> << << 1 >> >>]]

\* the responses the wire protocol allows to a request carrying stmts: without
\* errors, one result block per statement; with errors, the blocks of the
\* statements that ran before the error (post() never reads them)
Responses(stmts) ==
    { [location |-> l, commit |-> c, errors |-> <<>>, results |-> r] :
        l \in Locations \cup {None}, c \in CommitURLs \cup {None},
        r \in BlocksFor(stmts, Len(stmts)) }
    \cup
    { [location |-> l, commit |-> c, errors |-> << "error" >>,
       results |-> FirstBlocks(stmts, n)] :
        l \in Locations \cup {None}, c \in CommitURLs \cup {None}, n \in 0..Len(stmts) }

(* ------------------------------- post --------------------------------- *)

\* a post that forgets the commit URL it learned
resource_forgets_commit(commit) ==
    IF commit
    THEN begin_commit
    ELSE (IF tx_execute # None THEN tx_execute ELSE begin)

\* the resource post() sends the request to
resource(commit) ==
    IF commit
    THEN (IF tx_commit # None THEN tx_commit ELSE begin_commit)
    ELSE (IF tx_execute # None THEN tx_execute ELSE begin)

\* [producer.produce(self.graph.hydrate(data["rest"])) for data in j_result["data"]]
Produced(columns, data) == [i \in DOMAIN data |-> produce(columns, hydrate(data[i]))]

RECURSIVE Populate(_, _, _, _)
\* the loop over j["results"]: each block populates the Result popped from the
\* head of the pending queue; [results, heap, raised]
Populate(rs, hp, blocks, hydrate_) ==
    IF blocks = <<>> THEN [results |-> rs, heap |-> hp, raised |-> None]
    ELSE IF rs = <<>> THEN [results |-> rs, heap |-> hp, raised |-> "IndexError"]
    ELSE LET result == Head(rs)
             j_result == Head(blocks)
             keys == j_result.columns
             records == IF hydrate_ THEN Produced(RecordProducer(keys), j_result.data)
                        ELSE j_result.data
         IN IF hydrate_ /\ \E i \in DOMAIN records : records[i].raised # None
            THEN [results |-> Tail(rs), heap |-> hp, raised |-> "IndexError"]
            ELSE Populate(Tail(rs),
                          [hp EXCEPT ![result] = process(hp[result], keys, records, j_result.answers)],
                          Tail(blocks), hydrate_)

\* the ids of the statements of stmts
Ids(stmts) == { stmts[i].id : i \in 1..Len(stmts) }

\* Transaction.post(commit, hydrate), the request answered with rs
PostAnswered(commit, hydrate_, rs) ==
    LET done == Populate(results, heap, rs.results, hydrate_) IN
    /\ carried' = [location |-> IF rs.location # None THEN rs.location ELSE carried.location,
                    commit |-> IF rs.commit # None THEN rs.commit ELSE carried.commit]
    /\ tx_execute' = IF rs.location # None THEN rs.location ELSE tx_execute
    /\ statements' = <<>>
    /\ tx_commit' = IF rs.commit # None THEN rs.commit ELSE tx_commit
    /\ IF Len(rs.errors) >= 1
       THEN /\ last' = [op |-> "post", commit |-> commit, raised |-> "TransactionError"]
            /\ results' = results
            /\ heap' = [r \in DOMAIN heap |->
                           IF r \in Ids(statements)
                           THEN [heap[r] EXCEPT !.failed = TRUE] ELSE heap[r]]
       ELSE /\ results' = done.results
            /\ heap' = done.heap
            /\ last' = [op |-> "post", commit |-> commit, raised |-> done.raised]

\* a post that empties the statement queue before the exchange
PostFailed_queue_cleared(commit) ==
    /\ last' = [op |-> "post", commit |-> commit, raised |-> "TransportError"]
    /\ statements' = <<>>
    /\ UNCHANGED << results, tx_execute, tx_commit, heap, carried >>

\* Transaction.post(commit, hydrate), resource.post raising a transport error
PostFailed(commit) ==
    /\ last' = [op |-> "post", commit |-> commit, raised |-> "TransportError"]
    /\ UNCHANGED << statements, results, tx_execute, tx_commit, heap, carried >>

\* a commit that leaves the flag as it was
finished_at_post_unset(commit) == finished

\* a post that sets the flag whether or not it commits
finished_at_post_always(commit) == TRUE

\* __finished once post() has chosen its resource: set when committing
finished_at_post(commit) == IF commit THEN TRUE ELSE finished

\* Transaction.post(commit, hydrate); process() is post(FALSE, TRUE) and
\* commit() is post(TRUE, TRUE)
Post(commit, hydrate_) ==
    IF assert_unfinished
    THEN /\ last' = [op |-> "post", commit |-> commit, raised |-> "Finished"]
         /\ requests' = <<>>
         /\ UNCHANGED << statements, results, tx_execute, tx_commit, finished, heap, carried >>
    ELSE /\ finished' = finished_at_post(commit)
         /\ requests' = << [method |-> "POST", uri |-> resource(commit),
                            statements |-> statements] >>
         /\ \/ PostFailed(commit)
            \/ \E rs \in Responses(statements) : PostAnswered(commit, hydrate_, rs)

(* ----------------------------- rollback ------------------------------- *)

\* a rollback that deletes the begin endpoint when it knows no other
rollback_requests_always ==
    << [method |-> "DELETE", uri |-> IF tx_execute # None THEN tx_execute ELSE begin,
        statements |-> <<>>] >>

\* a rollback that first posts the pending statements
rollback_requests_flush ==
    << [method |-> "POST", uri |-> IF tx_execute # None THEN tx_execute ELSE begin,
        statements |-> statements] >>

\* the requests rollback() sends: a DELETE to the execute endpoint, if any
rollback_requests ==
    IF tx_execute # None
    THEN << [method |-> "DELETE", uri |-> tx_execute, statements |-> <<>>] >>
    ELSE <<>>

\* a rollback without the finally clause: the flag is set after the delete
finished_at_rollback_no_finally(raised) == raised = None

\* __finished after rollback(), whose delete raised `raised`: the finally
\* clause sets it whatever happened
finished_at_rollback(raised) == TRUE

\* Transaction.rollback()
Rollback ==
    IF assert_unfinished
    THEN /\ last' = [op |-> "rollback", commit |-> FALSE, raised |-> "Finished"]
         /\ requests' = <<>>
         /\ UNCHANGED << statements, results, tx_execute, tx_commit, finished, heap, carried >>
    ELSE /\ requests' = rollback_requests
         /\ \E raised \in IF requests' # <<>> THEN {None, "TransportError"} ELSE {None} :
               /\ last' = [op |-> "rollback", commit |-> FALSE, raised |-> raised]
               /\ finished' = finished_at_rollback(raised)
         /\ UNCHANGED << statements, results, tx_execute, tx_commit, heap, carried >>

(* --------------------------- specification ---------------------------- *)

Next ==
    \/ \E in \in ExecuteInputs : Execute(in)
    \/ \E commit \in BOOLEAN, hydrate_ \in BOOLEAN : Post(commit, hydrate_)
    \/ Rollback

\* state of the other specifications of this module, idle in this one
VARIABLES
    res,          \* a Result object on its own
    read,         \* the last read of res and what it returned or raised
    ps,           \* a call of presubstitute, one iteration of its loop at a time
    engine,       \* CypherEngine.__instances and the threads constructing engines
    facade,       \* a one-shot operation of CypherEngine
    other         \* a second Transaction

aux == << res, read, ps, engine, facade, other >>

idle == "idle"

Idle ==
    /\ res = idle
    /\ read = idle
    /\ ps = idle
    /\ engine = idle
    /\ facade = idle
    /\ other = idle

all_vars == << vars, aux >>

TxInit == Init /\ Idle

TxNext ==
    \/ (\E in \in ExecuteInputs : Execute(in)) /\ UNCHANGED aux
    \/ (\E commit \in BOOLEAN, hydrate_ \in BOOLEAN : Post(commit, hydrate_))
          /\ UNCHANGED aux
    \/ Rollback /\ UNCHANGED aux

\* one Transaction and the calls made on it
Spec == TxInit /\ [][TxNext]_all_vars

(* ------------------------- a Result on its own ------------------------ *)

\* res is [self, hydrated, data]: the Result object, whether the post that
\* populated it hydrated the rows into Records (history: it tells how to read
\* a record of self.records), and the rows as the server sent them (history).  read is the last read: [op, item, raised,
\* kind, int, records], where kind tells what was returned: None, an integer
\* ("int", "value": in int) or records ("records", "record": in records).

\* a Result that never checks
assert_processed_never(self) == FALSE

\* Result._assert_processed: whether it raises NotProcessedError
assert_processed(self) == ~self.processed

NotProcessed(op, item) ==
    [op |-> op, item |-> item, raised |-> "NotProcessedError", kind |-> None,
     int |-> 0, records |-> <<>>]

Returned(op, item, kind, int, records) ==
    [op |-> op, item |-> item, raised |-> None, kind |-> kind,
     int |-> int, records |-> records]

\* len(record): of a Record its values, of a raw row the row
record_len(record, hydrated) == IF hydrated THEN Len(record.values) ELSE Len(record)

\* record[0]
record_first(record, hydrated) == IF hydrated THEN record.values[1] ELSE record[1]

\* Result.__len__
Result_len(self) ==
    IF assert_processed(self) THEN NotProcessed("len", 0)
    ELSE Returned("len", 0, "int", Len(self.records), <<>>)

\* Result.__iter__: the records, in the order of the list
Result_iter(self) ==
    IF assert_processed(self) THEN NotProcessed("iter", 0)
    ELSE Returned("iter", 0, "records", 0, self.records)

\* Result.__getitem__(item) for an integer item: list indexing, a negative
\* item counting from the end
Result_getitem(self, item) ==
    IF assert_processed(self) THEN NotProcessed("getitem", item)
    ELSE LET n == Len(self.records)
             at == IF item < 0 THEN n + item ELSE item
         IN IF at < 0 \/ at >= n
            THEN [op |-> "getitem", item |-> item, raised |-> "IndexError",
                  kind |-> None, int |-> 0, records |-> <<>>]
            ELSE Returned("getitem", item, "record", 0, << self.records[at + 1] >>)

\* a value() that returns the first value of any record that has one
Result_value_first(self, hydrated) ==
    IF assert_processed(self) THEN NotProcessed("value", 0)
    ELSE IF Result_getitem(self, 0).raised = "IndexError"
    THEN Returned("value", 0, None, 0, <<>>)
    ELSE LET record == Result_getitem(self, 0).records[1] IN
         IF record_len(record, hydrated) = 0 THEN Returned("value", 0, None, 0, <<>>)
         ELSE Returned("value", 0, "value", record_first(record, hydrated), <<>>)

\* Result.value()
Result_value(self, hydrated) ==
    IF assert_processed(self) THEN NotProcessed("value", 0)
    ELSE IF Result_getitem(self, 0).raised = "IndexError"
    THEN Returned("value", 0, None, 0, <<>>)
    ELSE LET record == Result_getitem(self, 0).records[1] IN
         IF record_len(record, hydrated) = 0 THEN Returned("value", 0, None, 0, <<>>)
         ELSE IF record_len(record, hydrated) = 1
         THEN Returned("value", 0, "value", record_first(record, hydrated), <<>>)
         ELSE Returned("value", 0, "record", 0, << record >>)

\* the columns and rows Result.process is called with
ResultBodies ==
    { [columns |-> <<>>, data |-> <<>>],
      [columns |-> << a_ >>, data |-> <<>>],
      [columns |-> << a_ >>, data |-> << << -17 >> >>],
      [columns |-> << a_ >>, data |-> << << 1 >>, << 2 >> >>],
      [columns |-> << a_, b_ >>, data |-> << << 1, 2 >> >>],
      [columns |-> << a_, b_ >>, data |-> << << 1, 2 >>, << 3, 4 >> >>],
      [columns |-> <<>>, data |-> << <<>> >>],
      [columns |-> << i_, b_ >>, data |-> << << 2, 3 >> >>] }

\* the items Result.__getitem__ is called with
Items == {-1, 0, 1, 2}

ResultInit ==
    /\ Init
    /\ res = [self |-> Result, hydrated |-> FALSE, data |-> <<>>]
    /\ read = [op |-> "none", item |-> 0, raised |-> None, kind |-> None,
                int |-> 0, records |-> <<>>]
    /\ ps = idle /\ engine = idle /\ facade = idle /\ other = idle

\* Result.process(keys, records), as post() calls it on a pending Result
ResultProcess(body, hydrate_) ==
    /\ ~res.self.processed
    /\ res' = [self |-> process(res.self, body.columns,
                                IF hydrate_
                                THEN Produced(RecordProducer(body.columns), body.data)
                                ELSE body.data,
                                0),
               hydrated |-> hydrate_,
               data |-> body.data]
    /\ UNCHANGED << read, vars, ps, engine, facade, other >>

\* a read of the Result: len(result), iter(result), result[item], result.value()
ResultRead(op, item) ==
    /\ read' = CASE op = "len" -> Result_len(res.self)
                 [] op = "iter" -> Result_iter(res.self)
                 [] op = "getitem" -> Result_getitem(res.self, item)
                 [] op = "value" -> Result_value(res.self, res.hydrated)
    /\ UNCHANGED << res, vars, ps, engine, facade, other >>

ResultNext ==
    \/ \E body \in ResultBodies, hydrate_ \in BOOLEAN : ResultProcess(body, hydrate_)
    \/ \E op \in {"len", "iter", "value"} : ResultRead(op, 0)
    \/ \E item \in Items : ResultRead("getitem", item)

\* one Result: created by execute(), populated once, and read
SpecResult == ResultInit /\ [][ResultNext]_all_vars

(* ------------------- the one-shot operations of the engine ------------ *)

\* facade is the operation in progress: [op, pc, raised, kind, int].  pc is
\* the call the operation makes next ("execute", "commit") or "done" once it
\* has returned or raised; kind and int are what evaluate() returned.

FacadeOps == {"run", "execute", "evaluate", "stream"}

\* a stream() that posts without committing
facade_commit_not_stream(op) == op # "stream"

\* the commit argument of the post the operation makes: tx.commit(), and for
\* stream() tx.post(commit=True)
facade_commit(op) == TRUE

\* the hydrate argument of that post: tx.commit() hydrates, stream() goes
\* through CypherEngine.post, whose tx.post(commit=True) does not
facade_hydrate(op) == op # "stream"

FacadeDone(op, raised, kind, int) ==
    [op |-> op, pc |-> "done", raised |-> raised, kind |-> kind, int |-> int]

FacadeInit ==
    /\ Init
    /\ facade = FacadeDone("none", None, None, 0)
    /\ res = idle /\ read = idle /\ ps = idle /\ engine = idle /\ other = idle

\* the operation is called: tx = Transaction(self.uri)
FacadeCall(op) ==
    /\ facade.pc = "done"
    /\ facade' = [op |-> op, pc |-> "execute", raised |-> None, kind |-> None, int |-> 0]
    /\ statements' = <<>>
    /\ results' = <<>>
    /\ tx_execute' = None
    /\ tx_commit' = None
    /\ finished' = FALSE
    /\ heap' = <<>>
    /\ requests' = <<>>
    /\ carried' = [location |-> None, commit |-> None]
    /\ last' = [op |-> "begin", commit |-> FALSE, raised |-> None]
    /\ UNCHANGED << res, read, ps, engine, other >>

\* tx.execute(statement, parameters, **kwparameters); what it raises ends
\* the operation
FacadeExecute(in) ==
    /\ facade.pc = "execute"
    /\ Execute(in)
    /\ facade' = IF last'.raised # None
                 THEN FacadeDone(facade.op, last'.raised, None, 0)
                 ELSE [facade EXCEPT !.pc = "commit"]
    /\ UNCHANGED << res, read, ps, engine, other >>

\* what the operation does with the Result once the post has returned:
\* run() returns nothing, execute() the Result, evaluate() result.value(),
\* and stream() builds a RecordStream, whose result["columns"] indexes the
\* list of records with a string
FacadeReturn(op, result) ==
    CASE op = "evaluate" ->
           LET v == Result_value(result, TRUE) IN FacadeDone(op, v.raised, v.kind, v.int)
      [] op = "stream" ->
           IF assert_processed(result)
           THEN FacadeDone(op, "NotProcessedError", None, 0)
           ELSE FacadeDone(op, "TypeError", None, 0)
      [] OTHER -> FacadeDone(op, None, None, 0)

\* tx.commit(), or tx.post(commit=True) in stream(), and the return
FacadeCommit ==
    /\ facade.pc = "commit"
    /\ Post(facade_commit(facade.op), facade_hydrate(facade.op))
    /\ facade' = IF last'.raised # None
                 THEN FacadeDone(facade.op, last'.raised, None, 0)
                 ELSE FacadeReturn(facade.op, heap'[1])
    /\ UNCHANGED << res, read, ps, engine, other >>

FacadeNext ==
    \/ \E op \in FacadeOps : FacadeCall(op)
    \/ \E in \in ExecuteInputs : FacadeExecute(in)
    \/ FacadeCommit

\* one-shot operations of a CypherEngine, one after the other
SpecFacade == FacadeInit /\ [][FacadeNext]_all_vars

(* --------------------------- two Transactions ------------------------- *)

\* The calls are made on one Transaction at a time: statements, results,
\* tx_execute, tx_commit and finished are the fields of the Transaction in
\* use, and other holds the fields of the second Transaction, with history:
\* turn (which of the two is in use), mine and owned (the Results execute()
\* returned to the Transaction in use and to the second one).  The Result
\* objects of both are in heap.

\* Transactions whose fields are kept on the class: one of each for all objects
other_fields_on_class ==
    [statements |-> statements, results |-> results, tx_execute |-> tx_execute,
     tx_commit |-> tx_commit, finished |-> finished]

\* the fields of the second Transaction: __init__ gives every object its own
other_fields ==
    [statements |-> other.statements, results |-> other.results,
     tx_execute |-> other.tx_execute, tx_commit |-> other.tx_commit,
     finished |-> other.finished]

TwoInit ==
    /\ Init
    /\ other = [statements |-> <<>>, results |-> <<>>, tx_execute |-> None,
                tx_commit |-> None, finished |-> FALSE,
                turn |-> 1, mine |-> {}, owned |-> {}]
    /\ res = idle /\ read = idle /\ ps = idle /\ engine = idle /\ facade = idle

\* the calls of execute() made on the two Transactions
TwoInputs == { in \in ExecuteInputs : in.carried = NoParameters }

\* execute() on the Transaction in use
TwoExecute(in) ==
    /\ Execute(in)
    /\ other' = [other EXCEPT !.mine = IF last'.raised = None
                                       THEN @ \cup {Len(heap')} ELSE @]
    /\ UNCHANGED << res, read, ps, engine, facade >>

\* the location and the commit URL the server gives the Transaction of a turn
LocationOf(turn) == IF turn = 1 THEN "/tx/1" ELSE "/tx/2"
CommitURLOf(turn) == IF turn = 1 THEN "/tx/1/commit" ELSE "/tx/2/commit"

\* process() or commit() on the Transaction in use; the server names the
\* transaction's own location and commit URL in every response, and the
\* statements of the two Transactions all return the one column a
TwoPost(commit) ==
    /\ Post(commit, TRUE)
    /\ \/ last'.raised \in {"Finished", "TransportError"}
       \/ tx_execute' = LocationOf(other.turn) /\ tx_commit' = CommitURLOf(other.turn)
    /\ \A id \in DOMAIN heap' : heap'[id].processed => heap'[id].keys = << a_ >>
    /\ UNCHANGED << other, res, read, ps, engine, facade >>

\* rollback() on the Transaction in use
TwoRollback ==
    /\ Rollback
    /\ UNCHANGED << other, res, read, ps, engine, facade >>

\* the caller turns to the second Transaction
TwoSwitch ==
    /\ statements' = other_fields.statements
    /\ results' = other_fields.results
    /\ tx_execute' = other_fields.tx_execute
    /\ tx_commit' = other_fields.tx_commit
    /\ finished' = other_fields.finished
    /\ other' = [statements |-> statements, results |-> results,
                 tx_execute |-> tx_execute, tx_commit |-> tx_commit,
                 finished |-> finished,
                 turn |-> 3 - other.turn, mine |-> other.owned, owned |-> other.mine]
    /\ UNCHANGED << heap, requests, carried, last, res, read, ps, engine, facade >>

TwoNext ==
    \/ \E in \in TwoInputs : TwoExecute(in)
    \/ \E commit \in BOOLEAN : TwoPost(commit)
    \/ TwoRollback
    \/ TwoSwitch

\* two Transactions on the same endpoint, their calls interleaved
SpecTwo == TwoInit /\ [][TwoNext]_all_vars

(* --------------------------- the engine cache ------------------------- *)

\* engine is [instances, created, first, thread]: instances is
\* CypherEngine.__instances, from a URI to the instance stored for it (an
\* instance is the number of its creation, 0 for no entry); created is the
\* URI each created instance was bound to; thread gives every thread its
\* position in __new__ (pc), the URI it was called with, the instance it
\* holds and the instance its last call returned (got); first is history:
\* the instance the first construction to return for a URI returned.

Threads == {"t1", "t2"}
URIs == {"u1", "u2", "u3"}

\* a lookup that finds nothing
lookup_misses(instances, uri) == 0

\* cls.__instances[transaction_uri]: 0 stands for the KeyError
lookup(instances, uri) == instances[uri]

EngineInit ==
    /\ Init
    /\ engine = [instances |-> [u \in URIs |-> 0],
                 created |-> <<>>,
                 first |-> [u \in URIs |-> 0],
                 thread |-> [t \in Threads |->
                               [pc |-> "idle", uri |-> "u1", inst |-> 0, got |-> 0]]]
    /\ res = idle /\ read = idle /\ ps = idle /\ facade = idle /\ other = idle

\* return inst
EngineReturned(t, inst) ==
    [engine EXCEPT !.thread[t] = [pc |-> "idle", uri |-> @.uri, inst |-> 0, got |-> inst],
                   !.first[engine.thread[t].uri] = IF @ = 0 THEN inst ELSE @]

\* thread t calls CypherEngine(uri)
EngineCall(t, uri) ==
    /\ engine.thread[t].pc = "idle"
    /\ engine' = [engine EXCEPT !.thread[t] = [pc |-> "lookup", uri |-> uri,
                                               inst |-> 0, got |-> 0]]
    /\ UNCHANGED << vars, res, read, ps, facade, other >>

\* try: inst = cls.__instances[transaction_uri], and the return when it is there
EngineLookup(t) ==
    /\ engine.thread[t].pc = "lookup"
    /\ LET inst == lookup(engine.instances, engine.thread[t].uri) IN
       engine' = IF inst = 0
                 THEN [engine EXCEPT !.thread[t].pc = "create"]
                 ELSE EngineReturned(t, inst)
    /\ UNCHANGED << vars, res, read, ps, facade, other >>

\* except KeyError: inst = super(CypherEngine, cls).__new__(cls); inst.bind(transaction_uri)
EngineCreate(t) ==
    /\ engine.thread[t].pc = "create"
    /\ engine' = [engine EXCEPT !.created = Append(@, engine.thread[t].uri),
                                !.thread[t].inst = Len(engine.created) + 1,
                                !.thread[t].pc = "store"]
    /\ UNCHANGED << vars, res, read, ps, facade, other >>

\* cls.__instances[transaction_uri] = inst, and the return
EngineStore(t) ==
    /\ engine.thread[t].pc = "store"
    /\ engine' = [EngineReturned(t, engine.thread[t].inst) EXCEPT
                     !.instances[engine.thread[t].uri] = engine.thread[t].inst]
    /\ UNCHANGED << vars, res, read, ps, facade, other >>

EngineNext ==
    \/ \E t \in Threads, uri \in URIs : EngineCall(t, uri)
    \/ \E t \in Threads : EngineLookup(t)
    \/ \E t \in Threads : EngineCreate(t)
    \/ \E t \in Threads : EngineStore(t)

\* the threads of a process constructing engines
SpecEngine == EngineInit /\ [][EngineNext]_all_vars

SingleNext ==
    \/ \E uri \in URIs : EngineCall("t1", uri)
    \/ EngineLookup("t1")
    \/ EngineCreate("t1")
    \/ EngineStore("t1")

\* one thread constructing engines
SpecEngineSingle == EngineInit /\ [][SingleNext]_all_vars

(* ------------------- presubstitute, step by step ---------------------- *)

\* ps is a call of presubstitute: [statement, parameters, presub_parameters,
\* pc, raised] are the local variables, the position ("loop" in the while
\* loop, "done" once the call has returned or raised) and what was raised;
\* template, input and substitutions are history: the arguments of the call
\* and the number of values spliced in so far.

TupleValue(t) == [type |-> "tuple", v |-> t]
ListValue(l) == [type |-> "list", v |-> l]
StrValue(text) == [type |-> "str", v |-> text]

\* the statements presubstitute is called with
Templates ==
    { <<"R">>,
      <<"R", opener, "k", closer>>,
      <<opener, "k", closer, opener, "n", closer>>,
      <<"R", opener, "k">> }

\* the values of the parameter k
ValuesOfK ==
    { IntValue(-17), TupleValue(<< 1, 3 >>), TupleValue(<<>>),
      ListValue(<< <<"a">>, <<"L">> >>), StrValue(<<"a">>),
      StrValue(<< opener, "k", closer >>), StrValue(<< opener, "n", closer >>) }

\* the parameter mappings presubstitute is called with
Mappings ==
    { NoParameters }
    \cup { (k_ :> v) : v \in ValuesOfK }
    \cup { (k_ :> v) @@ (n_ :> w) : v \in ValuesOfK, w \in {IntValue(5), StrValue(<<"a">>)} }

PresubInit ==
    /\ Init
    /\ \E template \in Templates, mapping \in Mappings :
          ps = [statement |-> template, parameters |-> mapping, presub_parameters |-> {},
                pc |-> "loop", raised |-> None,
                template |-> template, input |-> mapping, substitutions |-> 0]
    /\ res = idle /\ read = idle /\ engine = idle /\ facade = idle /\ other = idle

\* an iteration of the while loop that finds an opener: the key is looked
\* up, its value rendered and spliced in, and the loop partitions the new
\* statement from its start
PresubIterate ==
    /\ ps.pc = "loop"
    /\ ps.substitutions < MaxIterations
    /\ LET p == partition(ps.statement, opener)
           q == partition(p[3], closer)
           key == q[1]
       IN /\ p[2] # <<>>
          /\ ps' = IF key \notin DOMAIN ps.parameters
                   THEN [ps EXCEPT !.pc = "done", !.raised = "KeyError"]
                   ELSE IF RenderRaises(ps.parameters[key])
                   THEN [ps EXCEPT !.pc = "done", !.raised = "IndexError",
                                   !.presub_parameters = @ \cup {key}]
                   ELSE [ps EXCEPT !.statement = p[1] \o Render(ps.parameters[key]) \o q[3],
                                   !.presub_parameters = @ \cup {key},
                                   !.substitutions = @ + 1]
    /\ UNCHANGED << vars, res, read, engine, facade, other >>

\* the iteration that finds no opener (more = False), the new mapping and
\* the return
PresubReturn ==
    /\ ps.pc = "loop"
    /\ partition(ps.statement, opener)[2] = <<>>
    /\ ps' = [ps EXCEPT !.pc = "done",
                        !.parameters = [k \in DOMAIN ps.parameters \ ps.presub_parameters |->
                                           ps.parameters[k]]]
    /\ UNCHANGED << vars, res, read, engine, facade, other >>

PresubNext ==
    \/ PresubIterate
    \/ PresubReturn

\* one call of presubstitute
SpecPresub == PresubInit /\ [][PresubNext]_all_vars

(* ------------------------------ claims -------------------------------- *)

\* a call was made on the open transaction (it did not raise Finished)
Made(op) == last.op = op /\ last.raised # "Finished"

\* C1: once the transaction is finished, every call (execute, post, process,
\* commit, rollback) raises Finished, sends no request and queues nothing,
\* and finished stays true.
C1_FinishedIsFinal ==
    [][finished => /\ finished'
                   /\ last'.raised = "Finished"
                   /\ requests' = <<>>
                   /\ statements' = statements
                   /\ results' = results]_vars

\* a call of execute() on a finished transaction that still has statements queued
C1_Witness == finished /\ last.op = "execute" /\ last.raised = "Finished" /\ statements # <<>>

\* C2: every processed Result holds the response block that answers the
\* statement whose execute() call returned it.
C2_ResultsMatchStatements ==
    \A r \in DOMAIN heap : heap[r].processed => heap[r].answers = r

\* C3: a Result whose post was answered with errors is not populated, by that
\* post or by any later call.
C3_FailedResultStaysUnprocessed ==
    \A r \in DOMAIN heap : heap[r].failed => ~heap[r].processed

\* C4: after a post that sent the statements of N >= 1 execute() calls and
\* was answered with N result blocks and no errors, the N Results are
\* processed, the i-th holding the i-th block, and both queues are empty.
C4_QueueDiscipline ==
    (Made("post") /\ last.raised = None /\ requests[1].statements # <<>>) =>
        /\ statements = <<>>
        /\ results = <<>>
        /\ \A i \in 1..Len(requests[1].statements) :
              LET id == requests[1].statements[i].id IN
              heap[id].processed /\ heap[id].answers = id

\* C5: after commit (post with commit=true) the transaction is finished,
\* whether the exchange raised a transport error, the response reported
\* errors, or the commit succeeded.
C5_CommitFinishes == (last.op = "post" /\ last.commit) => finished

\* a commit of queued statements whose exchange raised a transport error
C5_Witness ==
    /\ Made("post") /\ last.commit /\ last.raised = "TransportError"
    /\ statements # <<>>

\* C6: after rollback() the transaction is finished, also when the DELETE raised.
C6_RollbackFinishes == last.op = "rollback" => finished

\* a rollback whose DELETE raised
C6_Witness == Made("rollback") /\ last.raised = "TransportError" /\ requests # <<>>

\* C7: rollback() on an open transaction sends exactly one DELETE, to the
\* execute endpoint, when a response has carried a location, and no request
\* otherwise; it never posts the pending statements.
C7_RollbackSendsOnlyDelete ==
    Made("rollback") =>
        requests = IF carried.location # None
                   THEN << [method |-> "DELETE", uri |-> carried.location,
                            statements |-> <<>>] >>
                   ELSE <<>>

\* a rollback with statements pending that sent its DELETE
C7_Witness == Made("rollback") /\ Len(requests) = 1 /\ statements # <<>>

\* C8 as stated: after rollback() on an open transaction the statement queue
\* holds no statements.
C8_RollbackEmptiesQueue == Made("rollback") => statements = <<>>

\* C8 as amended: rollback() leaves the statement queue as it was, the pending
\* statements still in it, and sends none of them.
C8_RollbackKeepsQueueUnsent ==
    [][last'.op = "rollback" =>
          /\ statements' = statements
          /\ \A i \in 1..Len(requests') : requests'[i].statements = <<>>]_vars

\* a rollback of an open transaction that leaves two statements in the queue
C8_Witness == Made("rollback") /\ Len(statements) = 2

\* C9: a post that does not commit goes to the location of the most recent
\* response that carried one, or to the begin endpoint if none did; a commit
\* goes to the commit URL of the most recent response that carried one, or
\* to the begin-commit endpoint if none did (as when no post was made before).
C9_EndpointSelection ==
    [][(last'.op = "post" /\ requests' # <<>>) =>
          requests'[1].uri =
             IF last'.commit
             THEN (IF carried.commit # None THEN carried.commit ELSE begin_commit)
             ELSE (IF carried.location # None THEN carried.location ELSE begin)]_vars

\* a commit sent to a learned commit URL, after an execute endpoint was learned
C9_Witness ==
    /\ Made("post") /\ last.commit
    /\ requests[1].uri \in CommitURLs
    /\ tx_execute \in Locations

\* C10: execute() and a post that does not commit (process) leave the
\* transaction open whatever the response; an open transaction becomes
\* finished exactly through a commit (post with commit=true) or a rollback.
C10_ProcessLeavesOpen ==
    [][~finished =>
          (finished' <=> (last'.op = "rollback" \/ (last'.op = "post" /\ last'.commit)))]_vars

\* an open transaction after a process whose response reported errors and
\* one that populated a Result
C10_Witness ==
    /\ ~finished /\ last.op = "post" /\ last.raised = "TransactionError"
    /\ \E r \in DOMAIN heap : heap[r].processed

\* C11: execute() of a statement with a marker whose key is absent from the
\* merged parameters raises before anything is queued: no request is sent,
\* and the statement queue, the pending-results queue and the Results are as
\* before the call.
C11_PresubstitutionErrorQueuesNothing ==
    [][(last'.op = "execute" /\ last'.raised = "KeyError") =>
          /\ statements' = statements
          /\ results' = results
          /\ heap' = heap
          /\ requests' = <<>>]_vars

\* an execute() that raised for a missing key with a statement already queued
C11_Witness ==
    /\ last.op = "execute" /\ last.raised = "KeyError"
    /\ statements # <<>> /\ ~finished

\* C19: between calls the pending-results queue is parallel to the statement
\* queue: one unprocessed Result per queued statement, in the same order.
C19_QueuesParallel ==
    /\ Len(results) = Len(statements)
    /\ \A i \in 1..Len(results) :
          i <= Len(statements) =>
             (results[i] = statements[i].id /\ ~heap[results[i]].processed)

\* C12: length, iteration, indexing and value() of a Result raise
\* NotProcessedError as long as the Result is not populated; once it is, they
\* return the populated records in order (the number of records, the records,
\* the record at the item), and no read changes the Result.
C12_ResultGuard ==
    [][read' # read =>
          /\ res' = res
          /\ IF ~res.self.processed
             THEN read'.raised = "NotProcessedError"
             ELSE CASE read'.op = "len" ->
                         read'.raised = None /\ read'.int = Len(res.self.records)
                    [] read'.op = "iter" ->
                         read'.raised = None /\ read'.records = res.self.records
                    [] read'.op = "getitem" ->
                         (read'.item \in 0..(Len(res.self.records) - 1)) =>
                            /\ read'.raised = None
                            /\ read'.records = << res.self.records[read'.item + 1] >>
                    [] OTHER -> read'.raised = None]_<< res, read >>

\* the second of two populated records, read by its index
C12_Witness ==
    /\ res.self.processed /\ Len(res.self.records) = 2
    /\ read.op = "getitem" /\ read.item = 1 /\ read.raised = None

\* the first record of a populated Result that has one
FirstRecord == res.self.records[1]

OneCommitRequest ==
    /\ Len(requests) = 1
    /\ requests[1].method = "POST"
    /\ requests[1].uri = begin_commit
    /\ Len(requests[1].statements) = 1

\* C16 as stated: each one-shot operation (run, execute, evaluate, stream)
\* sends exactly one request, a POST of exactly its one statement to the
\* begin-commit endpoint, and its transaction is finished when the operation
\* returns or raises.
C16_OneShotAsStated ==
    (facade.pc = "done" /\ facade.op \in FacadeOps) => (OneCommitRequest /\ finished)

\* C16 as amended: a one-shot operation whose statement execute() accepts
\* sends exactly one request, a POST of exactly that one statement to the
\* begin-commit endpoint, and its transaction is finished when the operation
\* returns or raises; an operation whose execute() raises (a marker key
\* missing from the parameters) has sent nothing, queued nothing, and leaves
\* its transaction unfinished.
C16_OneShot ==
    (facade.pc = "done" /\ facade.op \in FacadeOps) =>
        IF last.op = "execute"
        THEN /\ facade.raised = "KeyError"
             /\ requests = <<>> /\ statements = <<>> /\ results = <<>> /\ ~finished
        ELSE OneCommitRequest /\ finished

\* evaluate() has returned the value of the one row of one column
C16_Witness ==
    /\ facade.op = "evaluate" /\ facade.pc = "done" /\ facade.raised = None
    /\ facade.kind = "value" /\ facade.int = 1
    /\ OneCommitRequest /\ finished

\* C13: a call of execute, process, commit or rollback on one Transaction
\* leaves the statement queue, the pending-results queue, the learned
\* endpoints and the finished flag of the other Transaction unchanged, and
\* changes no Result that execute() returned to the other.
C13_NoInterference ==
    [][other'.turn = other.turn =>
          /\ other_fields' = other_fields
          /\ \A id \in other.owned : heap'[id] = heap[id]]_all_vars

\* a post on one Transaction has populated its Result while the other
\* Transaction has a statement queued and its Result pending
C13_Witness ==
    /\ last.op = "post" /\ last.raised = None
    /\ \E id \in other.mine : heap[id].processed
    /\ other.statements # <<>> /\ ~other.finished
    /\ \E id \in other.owned : ~heap[id].processed

\* the instances created and bound for a URI
CreatedFor(uri) == { i \in 1..Len(engine.created) : engine.created[i] = uri }

\* C14: threads constructing a CypherEngine for the same URI at the same time
\* with no instance cached obtain the same instance, and only one instance is
\* ever created and bound for that URI.
C14_ConcurrentFirstAccess ==
    /\ \A uri \in URIs : Cardinality(CreatedFor(uri)) <= 1
    /\ \A t1 \in Threads, t2 \in Threads :
          (/\ engine.thread[t1].got # 0 /\ engine.thread[t2].got # 0
           /\ engine.thread[t1].uri = engine.thread[t2].uri)
             => engine.thread[t1].got = engine.thread[t2].got

\* C15: in a single thread, after any sequence of constructions the cache
\* holds at most one instance per URI (no second instance is created for a
\* URI and the cache holds the one created), and every construction for a
\* URI already seen returns the instance the first construction returned.
C15_SingleThreadCache ==
    /\ \A uri \in URIs :
          /\ Cardinality(CreatedFor(uri)) <= 1
          /\ engine.instances[uri] # 0 => engine.instances[uri] \in CreatedFor(uri)
    /\ engine.thread["t1"].got # 0 =>
          engine.thread["t1"].got = engine.first[engine.thread["t1"].uri]

\* a second construction for a URI has returned the instance of the first,
\* the cache holding instances for two URIs
C15_Witness ==
    /\ engine.thread["t1"].pc = "idle" /\ engine.thread["t1"].uri = "u1"
    /\ engine.thread["t1"].got = 1
    /\ engine.instances["u1"] = 1 /\ engine.instances["u2"] = 2

RECURSIVE MarkerKeys(_)
\* the keys named by the markers of a template, read from left to right
MarkerKeys(text) ==
    LET p == partition(text, opener)
        q == partition(p[3], closer)
    IN IF p[2] = <<>> THEN {} ELSE {q[1]} \cup MarkerKeys(q[3])

RECURSIVE Markers(_)
\* the number of markers of a template
Markers(text) ==
    LET p == partition(text, opener)
        q == partition(p[3], closer)
    IN IF p[2] = <<>> THEN 0 ELSE 1 + Markers(q[3])

\* C18: when every marker key of the template is in the mapping,
\* presubstitute returns (it does not raise) a statement with no marker left
\* and the input mapping without the keys named by markers, every other key
\* kept with its value.
C18_AllKeysPresent ==
    (ps.pc = "done" /\ MarkerKeys(ps.template) \subseteq DOMAIN ps.input) =>
        /\ ps.raised = None
        /\ Find(ps.statement, opener, 1) = 0
        /\ DOMAIN ps.parameters = DOMAIN ps.input \ MarkerKeys(ps.template)
        /\ \A k \in DOMAIN ps.parameters : ps.parameters[k] = ps.input[k]

\* C20: presubstitute substitutes once per marker of the original template:
\* never more often, and exactly as often when it returns.
C20_OneSubstitutionPerMarker ==
    /\ ps.substitutions <= Markers(ps.template)
    /\ (ps.pc = "done" /\ ps.raised = None) => ps.substitutions = Markers(ps.template)

\* C21: a process() (post without commit) whose exchange raises a transport
\* error raises it to the caller and leaves the statement queue, the
\* pending-results queue, the learned endpoints, the finished flag and every
\* Result as before the call; the request of a process() or commit() that
\* follows carries the same statements again.
C21_TransportErrorLeavesUnchanged ==
    [][/\ (last'.op = "post" /\ ~last'.commit /\ last'.raised = "TransportError") =>
             /\ statements' = statements
             /\ results' = results
             /\ tx_execute' = tx_execute
             /\ tx_commit' = tx_commit
             /\ finished' = finished
             /\ heap' = heap
             /\ requests'[1].statements = statements
       /\ (/\ last.op = "post" /\ ~last.commit /\ last.raised = "TransportError"
           /\ last'.op = "post" /\ last'.raised # "Finished") =>
             requests'[1].statements = requests[1].statements]_vars

\* a process() of a queued statement has raised the transport error: the
\* statement is still queued and its Result pending
C21_Witness ==
    /\ last.op = "post" /\ ~last.commit /\ last.raised = "TransportError"
    /\ ~finished
    /\ statements # <<>> /\ requests[1].statements = statements
    /\ results # <<>> /\ \A r \in DOMAIN heap : ~heap[r].processed

\* the position of a column in the server's column list
ColumnPosition(keys, column) == CHOOSE i \in 1..Len(keys) : keys[i] = column

\* C22: every Record a hydrating post produced from a server row gives, by
\* column name, the value the server returned under that column, by position
\* i the value of the i-th column of its producer, and has as many values as
\* its producer has columns, internal columns in the server's list included.
C22_RecordAddressing ==
    (res.self.processed /\ res.hydrated) =>
        \A r \in DOMAIN res.self.records :
            LET record == res.self.records[r]
                row == res.data[r]
                keys == res.self.keys
            IN /\ Len(record.values) = Len(record.columns)
               /\ \A i \in 1..Len(record.columns) :
                     LET under == row[ColumnPosition(keys, record.columns[i])] IN
                     /\ record.attrs[record.columns[i]] = under
                     /\ record.values[i] = under

====
